---------------------------- MODULE Spec2Model ----------------------------
(***************************************************************************)
(* Bulk hospital ingestion: app/main.py (bulk_upload), app/processor.py    *)
(* (create_hospital, process_rows) and app/storage.py (the batch           *)
(* registry).                                                              *)
(*                                                                         *)
(* One ingestion request is followed from its arrival to its response.     *)
(* Every suspension point of the asyncio code (semaphore acquire, awaiting *)
(* a POST/PATCH response, the as_completed loop) separates two actions;    *)
(* code between two suspension points is one action.  The remote service   *)
(* is the environment: each awaited call either raises or returns a status *)
(* drawn from a small set that covers every branch of the code.            *)
(***************************************************************************)
EXTENDS Integers, Sequences, FiniteSets, TLC

(***************************************************************************)
(* Bounds of the model.  MAX_CSV_ROWS and CONCURRENCY are configuration    *)
(* values (config.py defaults 20 and 5) scaled down; MaxUploads bounds the *)
(* number of ingestions that pass the gates (uuid4 never runs out);        *)
(* CreateRows bounds the rows of a request where create_hospital is        *)
(* followed through every status (SpecCreate).  MaxRequests bounds the     *)
(* requests that run concurrently against the registry, and with them the  *)
(* uuids they generate and the batch ids they name.                        *)
(***************************************************************************)
MAX_CSV_ROWS == 2

CONCURRENCY == 1

MaxUploads == 1

CreateRows == 1

MaxRequests == 3

(***************************************************************************)
(* Values                                                                  *)
(***************************************************************************)
\* Optional[...] = None of schemas.py; remote ids are positive
None == 0

\* a loop that goes round once more: range(3)
AttemptsThree == 2 + 1

\* range(2) of create_hospital: the number of submissions the loop may make
Attempts == 2

\* the parsed rows parse_csv_bytes hands over: name and address are
\* stripped strings and either may be empty (phone never decides anything)
RowValues == [name : {"", "Apollo"}, address : {"", "Mumbai"}]

RECURSIVE SeqsUpTo(_, _)
SeqsUpTo(S, n) ==
    IF n = 0 THEN {<<>>}
    ELSE LET shorter == SeqsUpTo(S, n - 1)
         IN  shorter \cup {Append(s, x) : s \in {t \in shorter : Len(t) = n - 1}, x \in S}

\* every parsed input up to one row over the limit
RowInputs == SeqsUpTo(RowValues, MAX_CSV_ROWS + 1)

\* the short inputs of SpecCreate
CreateInputs == SeqsUpTo(RowValues, CreateRows)

\* upload file names, as character sequences
FileNames == { <<"h", ".", "c", "s", "v">>,
               <<"H", ".", "C", "S", "V">>,
               <<"c", "s", "v">>,
               <<"h", ".", "t", "x", "t">> }

\* statuses the remote create endpoint answers with: both success codes,
\* both ends of the 4xx range, and a status on either side of it
CreateStatuses == {200, 201, 399, 400, 499, 500}

\* one status of each class (success, client error, transient), for the
\* runs that follow several rows at once
DispatchStatuses == {201, 400, 500}

\* statuses the remote activate endpoint answers with
ActivateStatuses == {200, 201, 204, 500}

\* what awaiting a remote call can produce: an exception (transport error,
\* timeout), or a response with a status
Answers(statuses) ==
    {[raised |-> TRUE, status |-> 0]}
    \cup {[raised |-> FALSE, status |-> s] : s \in statuses}

\* the remote create endpoint: a 200/201 response carries a fresh id in
\* its JSON body (hid), as the remote's contract says; any other answer
\* carries none
PostOutcome(answer, hid) ==
    [raised |-> answer.raised, status |-> answer.status,
     id |-> IF ~answer.raised /\ answer.status \in {200, 201} THEN hid ELSE None]

\* no PATCH has returned
NoPatch == [raised |-> FALSE, status |-> 0]

PatchOutcomes == Answers(ActivateStatuses)

\* error texts of HospitalResult
NoError == [msg |-> "None", code |-> 0]

ValidationError == [msg |-> "name or address missing", code |-> 0]

\* f"HTTP {resp.status_code}: {resp.text}"
HttpError(status) == [msg |-> "HTTP", code |-> status]

\* str(e)
ExceptionError == [msg |-> "exception", code |-> 0]

HospitalResult(row, hospital_id, name, status, error) ==
    [row |-> row, hospital_id |-> hospital_id, name |-> name,
     status |-> status, error |-> error]

NoResponse == [kind |-> "none"]

HTTPException(status_code, detail) ==
    [kind |-> "error", status_code |-> status_code, detail |-> detail]

\* the requests that run concurrently against the registry
Requests == 1..MaxRequests

\* the batch ids a request may name in its path
BatchIds == 1..MaxRequests

\* what _batches.get(batch_id) returns for an absent key: None
NotFound == [found |-> FALSE, ids |-> <<>>]

\* a request that has not called get_all_batches holds no mapping
NoSnapshot == [live |-> FALSE, map |-> <<>>]

\* statuses the remote answers a GET or DELETE of one hospital with
EntityStatuses == {200, 404}

VARIABLES
    pc,          \* position of the ingestion request
    rows,        \* the parsed rows of the request
    batch_id,    \* its uuid (None before one is generated)
    nextUuid,    \* uuids generated so far
    wpc,         \* per row: position of its worker task
    attempt,     \* per row: the loop variable of create_hospital
    posts,       \* per row: client.post calls issued
    hist,        \* per row: what each awaited client.post produced
    sem,         \* value of the semaphore
    completed,   \* finished tasks not yet yielded by as_completed
    results,     \* the results list of process_rows
    activated,   \* the activated flag of process_rows
    patches,     \* client.patch calls issued by this dispatch
    patch_out,   \* what the awaited client.patch produced
    batches,     \* storage._batches
    response,    \* what bulk_upload answered
    nextHid,     \* ids the remote service has assigned so far
    lock,        \* storage._lock: the request holding it, or None
    rop,         \* per concurrent request: its operation
    rpc,         \* per concurrent request: its position
    rbatch,      \* per concurrent request: its batch_id
    rids,        \* per concurrent request: its local ids / created_ids
    rk,          \* per concurrent request: iterations of its loop done
    rsnap,       \* per concurrent request: the local batches of list_batches
    rout,        \* per concurrent request: the list it is building
    rresp,       \* per concurrent request: what it answered
    deletes      \* remote: the DELETE calls received, as <<request, id>>

\* the requests that run concurrently against the registry
reqVars == <<lock, rop, rpc, rbatch, rids, rk, rsnap, rout, rresp, deletes>>

vars == <<pc, rows, batch_id, nextUuid, wpc, attempt, posts, hist, sem,
          completed, results, activated, patches, patch_out, batches, response,
          nextHid, reqVars>>

dispatchVars == <<wpc, attempt, posts, hist, sem, completed, results,
                  activated, patches, patch_out>>

Init ==
    /\ pc = "idle"
    /\ rows = <<>>
    /\ batch_id = None
    /\ nextUuid = 0
    /\ wpc = <<>>
    /\ attempt = <<>>
    /\ posts = <<>>
    /\ hist = <<>>
    /\ sem = CONCURRENCY
    /\ completed = <<>>
    /\ results = <<>>
    /\ activated = FALSE
    /\ patches = 0
    /\ patch_out = NoPatch
    /\ batches = <<>>
    /\ response = NoResponse
    /\ nextHid = 0
    /\ lock = None
    /\ rop = [r \in Requests |-> "none"]
    /\ rpc = [r \in Requests |-> "idle"]
    /\ rbatch = [r \in Requests |-> None]
    /\ rids = [r \in Requests |-> NotFound]
    /\ rk = [r \in Requests |-> 0]
    /\ rsnap = [r \in Requests |-> NoSnapshot]
    /\ rout = [r \in Requests |-> <<>>]
    /\ rresp = [r \in Requests |-> NoResponse]
    /\ deletes = {}

(***************************************************************************)
(* create_hospital (processor.py 35-65)                                    *)
(***************************************************************************)
\* a gate that looks at the name alone
InvalidNameOnly(row) == row.name = ""

\* line 48: not payload["name"] or not payload["address"]
Invalid(row) == row.name = "" \/ row.address = ""

\* an outcome tagged with the zero-based position of its row
ValidationFailedZeroBased(row_idx, row) ==
    HospitalResult(row_idx - 1, None, row.name, "validation_failed", ValidationError)

\* line 49
ValidationFailed(row_idx, row) ==
    HospitalResult(row_idx, None, row.name, "validation_failed", ValidationError)

\* a success test that knows 201 alone
IsSuccessOnly201(status) == status = 201

\* line 56: resp.status_code in (200, 201)
IsSuccess(status) == status \in {200, 201}

\* a client-error range that leaves 400 out
IsClientErrorExclusive(status) == 400 < status /\ status < 500

\* line 59: 400 <= resp.status_code < 500
IsClientError(status) == 400 <= status /\ status < 500

\* What create_hospital does when the POST of loop iteration att (0-based)
\* has produced out: either it returns a HospitalResult (done) or the loop
\* goes round again and the next POST is issued.
OnPostOutcome(row_idx, row, att, out) ==
    IF out.raised
    THEN \* line 64-65: any exception leaves the loop
         [done |-> TRUE,
          result |-> HospitalResult(row_idx, None, row.name, "failed", ExceptionError)]
    ELSE IF IsSuccess(out.status)
    THEN \* line 57-58
         [done |-> TRUE,
          result |-> HospitalResult(row_idx, out.id, row.name, "created", NoError)]
    ELSE IF IsClientError(out.status)
    THEN \* line 61
         [done |-> TRUE,
          result |-> HospitalResult(row_idx, None, row.name, "failed", HttpError(out.status))]
    ELSE IF att + 1 < Attempts
    THEN \* line 62: treat as transient and retry
         [done |-> FALSE,
          result |-> HospitalResult(row_idx, None, row.name, "pending", NoError)]
    ELSE \* line 63: the loop is exhausted; resp is the last response
         [done |-> TRUE,
          result |-> HospitalResult(row_idx, None, row.name, "failed", HttpError(out.status))]

(***************************************************************************)
(* bulk_upload up to the dispatch (main.py 49-64, processor.py 72-80)      *)
(***************************************************************************)
Lower(c) == IF c = "C" THEN "c" ELSE IF c = "S" THEN "s" ELSE IF c = "V" THEN "v"
            ELSE IF c = "H" THEN "h" ELSE IF c = "T" THEN "t" ELSE IF c = "X" THEN "x"
            ELSE c

\* a suffix test that forgets the dot
EndsWithSuffixCsv(filename) ==
    LET n == Len(filename)
    IN  /\ n >= 3
        /\ [k \in 1..3 |-> Lower(filename[n - 3 + k])] = <<"c", "s", "v">>

\* file.filename.lower().endswith(".csv")
EndsWithCsv(filename) ==
    LET n == Len(filename)
    IN  /\ n >= 4
        /\ [k \in 1..4 |-> Lower(filename[n - 4 + k])] = <<".", "c", "s", "v">>

\* the first gate that fails, as the HTTPException raised, or NoResponse
Gate(filename, rs) ==
    IF ~EndsWithCsv(filename) THEN HTTPException(400, "Only CSV files allowed.")
    ELSE IF Len(rs) = 0 THEN HTTPException(400, "CSV contains no valid rows")
    ELSE IF Len(rs) > MAX_CSV_ROWS THEN HTTPException(400, "Max rows allowed")
    ELSE NoResponse

\* A request arrives.  A failed gate answers at once; otherwise a uuid is
\* generated, process_rows creates the semaphore, the empty results list
\* and one task per row, and suspends in as_completed.
Upload(filename, rs) ==
    /\ pc = "idle"
    /\ IF Gate(filename, rs) # NoResponse
       THEN /\ response' = Gate(filename, rs)
            /\ pc' = "responded"
            /\ UNCHANGED <<rows, batch_id, nextUuid, dispatchVars, batches, nextHid>>
       ELSE /\ nextUuid < MaxUploads
            /\ nextUuid' = nextUuid + 1
            /\ batch_id' = nextUuid + 1
            /\ rows' = rs
            /\ pc' = "dispatch"
            /\ wpc' = [i \in 1..Len(rs) |-> "queued"]
            /\ attempt' = [i \in 1..Len(rs) |-> 0]
            /\ posts' = [i \in 1..Len(rs) |-> 0]
            /\ hist' = [i \in 1..Len(rs) |-> <<>>]
            /\ sem' = CONCURRENCY
            /\ completed' = <<>>
            /\ results' = <<>>
            /\ activated' = FALSE
            /\ patches' = 0
            /\ patch_out' = NoPatch
            /\ response' = NoResponse
            /\ UNCHANGED <<batches, nextHid>>
    /\ UNCHANGED reqVars

(***************************************************************************)
(* process_rows: the workers (processor.py 77-79)                          *)
(***************************************************************************)
\* a semaphore that lets one task too many through
SemFreeOffByOne == sem >= 0

\* asyncio.Semaphore.acquire goes through only while the value is positive
SemFree == sem > 0

\* Worker i gets a slot and runs create_hospital up to its first await: a
\* row that fails validation returns at once (the slot is released in the
\* same step), any other row issues its first POST and suspends.  Which
\* waiting task gets a freed slot depends on the asyncio version (FIFO or
\* not), so any queued task may.
Acquire(i) ==
    /\ pc = "dispatch"
    /\ i \in DOMAIN wpc
    /\ wpc[i] = "queued"
    /\ SemFree
    /\ IF Invalid(rows[i])
       THEN /\ wpc' = [wpc EXCEPT ![i] = "done"]
            /\ completed' = Append(completed, ValidationFailed(i, rows[i]))
            /\ UNCHANGED <<sem, attempt, posts>>
       ELSE /\ wpc' = [wpc EXCEPT ![i] = "posting"]
            /\ sem' = sem - 1
            /\ attempt' = [attempt EXCEPT ![i] = 0]
            /\ posts' = [posts EXCEPT ![i] = 1]
            /\ UNCHANGED completed
    /\ UNCHANGED <<pc, rows, batch_id, nextUuid, hist, results, activated,
                   patches, patch_out, batches, response, nextHid>>
    /\ UNCHANGED reqVars

\* a slot that comes back only from a task that created its hospital
ReleaseIfCreated(s, result) == IF result.status = "created" THEN s + 1 ELSE s

\* processor.py 78: leaving "async with sem" gives the slot back, whatever
\* create_hospital returned
Release(s, result) == s + 1

\* The POST worker i awaits produces out; create_hospital runs on to its
\* return (the slot is released, the task is finished) or to the next POST.
PostReturns(i, answer) ==
    /\ pc = "dispatch"
    /\ i \in DOMAIN wpc
    /\ wpc[i] = "posting"
    /\ LET out  == PostOutcome(answer, nextHid + 1)
           step == OnPostOutcome(i, rows[i], attempt[i], out)
       IN  /\ nextHid' = IF out.id # None THEN nextHid + 1 ELSE nextHid
           /\ hist' = [hist EXCEPT ![i] = Append(@, out)]
           /\ IF step.done
              THEN /\ wpc' = [wpc EXCEPT ![i] = "done"]
                   /\ sem' = Release(sem, step.result)
                   /\ completed' = Append(completed, step.result)
                   /\ UNCHANGED <<attempt, posts>>
              ELSE /\ attempt' = [attempt EXCEPT ![i] = @ + 1]
                   /\ posts' = [posts EXCEPT ![i] = @ + 1]
                   /\ UNCHANGED <<wpc, sem, completed>>
    /\ UNCHANGED <<pc, rows, batch_id, nextUuid, results, activated, patches,
                   patch_out, batches, response>>
    /\ UNCHANGED reqVars

(***************************************************************************)
(* process_rows: fan-in and activation (processor.py 81-98)                *)
(***************************************************************************)
\* line 81-83: as_completed yields the next finished task
Collect ==
    /\ pc = "dispatch"
    /\ completed # <<>>
    /\ results' = Append(results, Head(completed))
    /\ completed' = Tail(completed)
    /\ UNCHANGED <<pc, rows, batch_id, nextUuid, wpc, attempt, posts, hist, sem,
                   activated, patches, patch_out, batches, response, nextHid>>
    /\ UNCHANGED reqVars

\* a loop left at the first task yielded
FirstCollected == Len(results) >= 1

\* the as_completed loop ends when every task has been yielded
AllCollected == Len(results) = Len(rows)

\* activation decided on there being outcomes at all
any_result == results # <<>>

\* line 86
created_any == \E k \in 1..Len(results) : results[k].status = "created"

\* line 85-92: after the loop, either the PATCH is issued or process_rows
\* returns with activated = False
AfterJoin ==
    /\ pc = "dispatch"
    /\ AllCollected
    /\ activated' = FALSE
    /\ IF created_any
       THEN /\ pc' = "activating"
            /\ patches' = patches + 1
       ELSE /\ pc' = "returned"
            /\ UNCHANGED patches
    /\ UNCHANGED <<rows, batch_id, nextUuid, wpc, attempt, posts, hist, sem,
                   completed, results, patch_out, batches, response, nextHid>>
    /\ UNCHANGED reqVars

\* an activation that takes any 2xx for a success
ActivationResultAny2xx(out) == ~out.raised /\ out.status >= 200 /\ out.status <= 299

\* line 93-95: resp.status_code in (200, 204); an exception leaves False
ActivationResult(out) == ~out.raised /\ out.status \in {200, 204}

PatchReturns(out) ==
    /\ pc = "activating"
    /\ patch_out' = out
    /\ activated' = ActivationResult(out)
    /\ pc' = "returned"
    /\ UNCHANGED <<rows, batch_id, nextUuid, wpc, attempt, posts, hist, sem,
                   completed, results, patches, batches, response, nextHid>>
    /\ UNCHANGED reqVars

(***************************************************************************)
(* bulk_upload after the dispatch (main.py 66-81), storage.save_batch      *)
(***************************************************************************)
\* a comprehension without its filter
SelectAll(rs) == [k \in 1..Len(rs) |-> rs[k].hospital_id]

RECURSIVE SelectCreated(_)
\* line 67: [r.hospital_id for r in results if r.status == "created"]
SelectCreated(rs) ==
    IF rs = <<>> THEN <<>>
    ELSE IF Head(rs).status = "created"
         THEN <<Head(rs).hospital_id>> \o SelectCreated(Tail(rs))
         ELSE SelectCreated(Tail(rs))

\* a registry that keeps no empty batch
save_batch_nonempty(reg, id, hospital_ids) ==
    IF hospital_ids = <<>> THEN reg
    ELSE [b \in (DOMAIN reg) \cup {id} |-> IF b = id THEN hospital_ids ELSE reg[b]]

\* storage.save_batch: _batches[batch_id] = hospital_ids
save_batch(reg, id, hospital_ids) ==
    [b \in (DOMAIN reg) \cup {id} |-> IF b = id THEN hospital_ids ELSE reg[b]]

\* line 77
FailedHospitals(rs, created_ids) == Len(rs) - Len(created_ids)

\* line 73-81
BulkResponse(id, rs, created_ids, act, res) ==
    [kind |-> "ok",
     batch_id |-> id,
     total_hospitals |-> Len(rs),
     processed_hospitals |-> Len(created_ids),
     failed_hospitals |-> FailedHospitals(rs, created_ids),
     batch_activated |-> act,
     hospitals |-> res]

\* process_rows has returned: the created ids are saved and the response is
\* built (save_batch finds its lock free; nothing is awaited in between)
Respond ==
    /\ pc = "returned"
    /\ LET created_ids == SelectCreated(results)
       IN  /\ batches' = save_batch(batches, batch_id, created_ids)
           /\ response' = BulkResponse(batch_id, rows, created_ids, activated, results)
    /\ pc' = "responded"
    /\ UNCHANGED <<rows, batch_id, nextUuid, dispatchVars, nextHid>>
    /\ UNCHANGED reqVars

\* The response has been sent; the locals of the request are gone.
Close ==
    /\ pc = "responded"
    /\ pc' = "idle"
    /\ rows' = <<>>
    /\ batch_id' = None
    /\ wpc' = <<>>
    /\ attempt' = <<>>
    /\ posts' = <<>>
    /\ hist' = <<>>
    /\ sem' = CONCURRENCY
    /\ completed' = <<>>
    /\ results' = <<>>
    /\ activated' = FALSE
    /\ patches' = 0
    /\ patch_out' = NoPatch
    /\ response' = NoResponse
    /\ UNCHANGED <<nextUuid, batches, nextHid>>
    /\ UNCHANGED reqVars

(***************************************************************************)
(* storage.py: the registry operations                                     *)
(***************************************************************************)
\* get_batch: _batches.get(batch_id), None for an absent key
get_batch(reg, id) ==
    IF id \in DOMAIN reg THEN [found |-> TRUE, ids |-> reg[id]] ELSE NotFound

\* a registry that hands out the dict itself
get_all_batches_live(reg) == [live |-> TRUE, map |-> reg]

\* get_all_batches: dict(_batches), a new mapping with the same items
get_all_batches(reg) == [live |-> FALSE, map |-> reg]

\* a removal that reports success whatever it found
remove_batch_always(reg, id) ==
    [reg |-> [b \in (DOMAIN reg) \ {id} |-> reg[b]], result |-> TRUE]

\* remove_batch: the registry afterwards and the value returned
remove_batch(reg, id) ==
    IF id \in DOMAIN reg
    THEN [reg |-> [b \in (DOMAIN reg) \ {id} |-> reg[b]], result |-> TRUE]
    ELSE [reg |-> reg, result |-> FALSE]

\* the mapping a caller of get_all_batches holds
Deref(snap) == IF snap.live THEN batches ELSE snap.map

\* a lock anyone may take
LockIgnored == TRUE

\* async with _lock: asyncio.Lock.acquire goes through only when unlocked
LockFree == lock = None

(***************************************************************************)
(* Requests running concurrently against the registry (main.py 48-161).    *)
(* An ingestion is followed here from its uuid to its save_batch, its      *)
(* dispatch reduced to the ids the remote assigns to its created rows.     *)
(* Taking and releasing _lock are separate steps, so that requests meet    *)
(* at the lock in every order a scheduler could produce.                   *)
(***************************************************************************)
pipelineVars == <<pc, rows, batch_id, dispatchVars, response>>

\* what the remote answers the probe GET of list_batches with
ProbeAnswers ==
    {[raised |-> TRUE, status |-> 0, active |-> FALSE],
     [raised |-> FALSE, status |-> 404, active |-> FALSE]}
    \cup {[raised |-> FALSE, status |-> 200, active |-> a] : a \in BOOLEAN}

\* an exception that leaves a handler: FastAPI answers 500
ServerError == HTTPException(500, "Internal Server Error")

\* line 91, 122: not ids
NotIds(got) == ~got.found \/ Len(got.ids) = 0

\* the ids nextHid + 1 .. nextHid + k, in the order the remote assigned them
FreshIds(k) == [j \in 1..k |-> nextHid + j]

\* Request r arrives, in the order of the request numbers.  It is an
\* upload that passes the gates: a uuid is generated and process_rows
\* runs (main.py 62-67).  Of that dispatch only the ids of the k rows
\* created are kept; the remote's ids are opaque, so the ids of one
\* dispatch are taken in one block.
ArriveUpload(r, k) ==
    /\ pc = "idle"
    /\ rop[r] = "none"
    /\ r > 1 => rop[r - 1] # "none"
    /\ k \in 0..MAX_CSV_ROWS
    /\ rop' = [rop EXCEPT ![r] = "upload"]
    /\ nextUuid' = nextUuid + 1
    /\ rbatch' = [rbatch EXCEPT ![r] = nextUuid + 1]
    /\ rids' = [rids EXCEPT ![r] = [found |-> TRUE, ids |-> FreshIds(k)]]
    /\ nextHid' = nextHid + k
    /\ rpc' = [rpc EXCEPT ![r] = "dispatched"]
    /\ UNCHANGED <<pipelineVars, batches, lock, rk, rsnap, rout, rresp, deletes>>

\* Request r arrives: a batch-detail or delete-batch request for batch b
\* (main.py 89, 120)
ArriveLookup(r, op, b) ==
    /\ pc = "idle"
    /\ rop[r] = "none"
    /\ r > 1 => rop[r - 1] # "none"
    /\ op \in {"details", "delete"}
    /\ rop' = [rop EXCEPT ![r] = op]
    /\ rbatch' = [rbatch EXCEPT ![r] = b]
    /\ rpc' = [rpc EXCEPT ![r] = "lookup"]
    /\ UNCHANGED <<pipelineVars, batches, nextUuid, nextHid, lock, rids, rk,
                   rsnap, rout, rresp, deletes>>

\* Request r arrives: a list-batches request (main.py 137)
ArriveList(r) ==
    /\ pc = "idle"
    /\ rop[r] = "none"
    /\ r > 1 => rop[r - 1] # "none"
    /\ rop' = [rop EXCEPT ![r] = "list"]
    /\ rpc' = [rpc EXCEPT ![r] = "listing"]
    /\ UNCHANGED <<pipelineVars, batches, nextUuid, nextHid, lock, rbatch, rids,
                   rk, rsnap, rout, rresp, deletes>>

\* the registry operation request r is about to call, if any
LockedPosition(r) ==
    CASE rpc[r] = "dispatched" -> "in_save"
      [] rpc[r] = "lookup"   -> "in_get"
      [] rpc[r] = "listing"  -> "in_get_all"
      [] rpc[r] = "removing" -> "in_remove"
      [] OTHER               -> "none"

\* storage.py 8, 12, 16, 20: async with _lock
LockEnter(r) ==
    /\ LockedPosition(r) # "none"
    /\ LockFree
    /\ lock' = r
    /\ rpc' = [rpc EXCEPT ![r] = LockedPosition(r)]
    /\ UNCHANGED <<pipelineVars, batches, nextUuid, nextHid, rop, rbatch, rids,
                   rk, rsnap, rout, rresp, deletes>>

\* main.py 70-81, storage.py 9: the created ids are saved, the lock is
\* released and bulk_upload answers
SaveBatch(r) ==
    /\ rpc[r] = "in_save"
    /\ batches' = save_batch(batches, rbatch[r], rids[r].ids)
    /\ lock' = None
    /\ rresp' = [rresp EXCEPT ![r] =
                   [kind |-> "ok", batch_id |-> rbatch[r],
                    processed_hospitals |-> Len(rids[r].ids)]]
    /\ rpc' = [rpc EXCEPT ![r] = "done"]
    /\ UNCHANGED <<pipelineVars, nextUuid, nextHid, rop, rbatch, rids, rk,
                   rsnap, rout, deletes>>

\* main.py 90-92, 121-123: ids = await get_batch(batch_id); if not ids
GetBatch(r) ==
    /\ rpc[r] = "in_get"
    /\ lock' = None
    /\ LET got == get_batch(batches, rbatch[r])
       IN  /\ rids' = [rids EXCEPT ![r] = got]
           /\ IF NotIds(got)
              THEN /\ rresp' = [rresp EXCEPT ![r] = HTTPException(404, "Batch not found")]
                   /\ rpc' = [rpc EXCEPT ![r] = "done"]
              ELSE /\ rpc' = [rpc EXCEPT ![r] =
                                IF rop[r] = "details" THEN "fetching" ELSE "deleting"]
                   /\ UNCHANGED rresp
    /\ UNCHANGED <<pipelineVars, batches, nextUuid, nextHid, rop, rbatch, rk,
                   rsnap, rout, deletes>>

\* a loop that is left after its first iteration
LoopDoneAfterFirst(k, ids) == k >= 1

\* main.py 96, 127: "for hid in ids" is over after k iterations
LoopDone(k, ids) == k = Len(ids)

\* main.py 96-101: one GET of the loop of batch_details returns
DetailsFetch(r, answer) ==
    /\ rpc[r] = "fetching"
    /\ LET hid == rids[r].ids[rk[r] + 1]
           hospitals == IF answer.status = 200 THEN Append(rout[r], hid) ELSE rout[r]
       IN  IF answer.raised
           THEN /\ rresp' = [rresp EXCEPT ![r] = ServerError]
                /\ rpc' = [rpc EXCEPT ![r] = "done"]
                /\ UNCHANGED <<rk, rout>>
           ELSE /\ rk' = [rk EXCEPT ![r] = @ + 1]
                /\ rout' = [rout EXCEPT ![r] = hospitals]
                /\ IF LoopDone(rk[r] + 1, rids[r].ids)
                   THEN /\ rresp' = [rresp EXCEPT ![r] =
                                       [kind |-> "ok", hospitals |-> hospitals]]
                        /\ rpc' = [rpc EXCEPT ![r] = "done"]
                   ELSE UNCHANGED <<rresp, rpc>>
    /\ UNCHANGED <<pipelineVars, batches, nextUuid, nextHid, lock, rop, rbatch,
                   rids, rsnap, deletes>>

\* main.py 127-128: one DELETE of the loop of delete_batch is issued and
\* returns; its status is not looked at, an exception leaves the handler
DeleteCall(r, answer) ==
    /\ rpc[r] = "deleting"
    /\ LET hid == rids[r].ids[rk[r] + 1]
       IN  /\ deletes' = deletes \cup {<<r, hid>>}
           /\ IF answer.raised
              THEN /\ rresp' = [rresp EXCEPT ![r] = ServerError]
                   /\ rpc' = [rpc EXCEPT ![r] = "done"]
                   /\ UNCHANGED rk
              ELSE /\ rk' = [rk EXCEPT ![r] = @ + 1]
                   /\ rpc' = [rpc EXCEPT ![r] =
                                IF LoopDone(rk[r] + 1, rids[r].ids) THEN "removing" ELSE @]
                   /\ UNCHANGED rresp
    /\ UNCHANGED <<pipelineVars, batches, nextUuid, nextHid, lock, rop, rbatch,
                   rids, rsnap, rout>>

\* main.py 131-133, storage.py 21-24: remove_batch, whose value
\* delete_batch does not look at
RemoveBatch(r) ==
    /\ rpc[r] = "in_remove"
    /\ batches' = remove_batch(batches, rbatch[r]).reg
    /\ lock' = None
    /\ rresp' = [rresp EXCEPT ![r] =
                   [kind |-> "ok", batch_id |-> rbatch[r], deleted |-> TRUE]]
    /\ rpc' = [rpc EXCEPT ![r] = "done"]
    /\ UNCHANGED <<pipelineVars, nextUuid, nextHid, rop, rbatch, rids, rk,
                   rsnap, rout, deletes>>

\* main.py 138, storage.py 17
GetAllBatches(r) ==
    /\ rpc[r] = "in_get_all"
    /\ rsnap' = [rsnap EXCEPT ![r] = get_all_batches(batches)]
    /\ lock' = None
    /\ rpc' = [rpc EXCEPT ![r] = "probing"]
    /\ UNCHANGED <<pipelineVars, batches, nextUuid, nextHid, rop, rbatch, rids,
                   rk, rout, rresp, deletes>>

\* the batches list_batches has already reported
Reported(r) == {rout[r][k].batch_id : k \in 1..Len(rout[r])}

\* main.py 143-159: one iteration of the loop of list_batches; a batch
\* with ids is probed through its first id, an empty one is not.  The
\* items come in the dict's order, which the model leaves open.
ListProbe(r, b, answer) ==
    /\ rpc[r] = "probing"
    /\ b \in DOMAIN Deref(rsnap[r])
    /\ b \notin Reported(r)
    /\ LET hospital_ids == Deref(rsnap[r])[b]
           active_status == hospital_ids # <<>> /\ answer.status = 200 /\ answer.active
       IN  IF hospital_ids # <<>> /\ answer.raised
           THEN /\ rresp' = [rresp EXCEPT ![r] = ServerError]
                /\ rpc' = [rpc EXCEPT ![r] = "done"]
                /\ UNCHANGED rout
           ELSE /\ rout' = [rout EXCEPT ![r] =
                              Append(@, [batch_id |-> b,
                                         total_hospitals |-> Len(hospital_ids),
                                         active |-> active_status])]
                /\ UNCHANGED <<rresp, rpc>>
    /\ UNCHANGED <<pipelineVars, batches, nextUuid, nextHid, lock, rop, rbatch,
                   rids, rk, rsnap, deletes>>

\* main.py 161: the loop is over
ListReturn(r) ==
    /\ rpc[r] = "probing"
    /\ DOMAIN Deref(rsnap[r]) \subseteq Reported(r)
    /\ rresp' = [rresp EXCEPT ![r] =
                   [kind |-> "ok", count |-> Len(rout[r]), batches |-> rout[r]]]
    /\ rpc' = [rpc EXCEPT ![r] = "done"]
    /\ UNCHANGED <<pipelineVars, batches, nextUuid, nextHid, lock, rop, rbatch,
                   rids, rk, rsnap, rout, deletes>>

\* concurrent ingestions alone
NextUploads ==
    \/ \E r \in Requests, k \in 0..MAX_CSV_ROWS : ArriveUpload(r, k)
    \/ \E r \in Requests : LockEnter(r)
    \/ \E r \in Requests : SaveBatch(r)

SpecUploads == Init /\ [][NextUploads]_vars

\* ingestions and delete-batch requests
NextDelete ==
    \/ NextUploads
    \/ \E r \in Requests, b \in BatchIds : ArriveLookup(r, "delete", b)
    \/ \E r \in Requests : GetBatch(r)
    \/ \E r \in Requests, answer \in Answers(EntityStatuses) : DeleteCall(r, answer)
    \/ \E r \in Requests : RemoveBatch(r)

SpecDelete == Init /\ [][NextDelete]_vars

\* ingestions, delete-batch and list-batches requests
NextList ==
    \/ NextDelete
    \/ \E r \in Requests : ArriveList(r)
    \/ \E r \in Requests : GetAllBatches(r)
    \/ \E r \in Requests, b \in BatchIds, answer \in ProbeAnswers : ListProbe(r, b, answer)
    \/ \E r \in Requests : ListReturn(r)

SpecList == Init /\ [][NextList]_vars

\* every request of main.py that reads or writes the registry
NextRegistry ==
    \/ NextList
    \/ \E r \in Requests, b \in BatchIds : ArriveLookup(r, "details", b)
    \/ \E r \in Requests, answer \in Answers(EntityStatuses) : DetailsFetch(r, answer)

SpecRegistry == Init /\ [][NextRegistry]_vars

\* the steps of the program, for requests drawn from inputs and a remote
\* create endpoint answering with statuses
NextWith(inputs, statuses) ==
    \/ \E f \in FileNames, rs \in inputs : Upload(f, rs)
    \/ \E i \in 1..MAX_CSV_ROWS : Acquire(i)
    \/ \E i \in 1..MAX_CSV_ROWS, answer \in Answers(statuses) : PostReturns(i, answer)
    \/ Collect
    \/ AfterJoin
    \/ \E out \in PatchOutcomes : PatchReturns(out)
    \/ Respond
    \/ Close

Next == NextWith(RowInputs, DispatchStatuses)

\* the whole pipeline, several rows in flight
Spec == Init /\ [][Next]_vars

NextCreate == NextWith(CreateInputs, CreateStatuses)

\* create_hospital through every status, on short requests
SpecCreate == Init /\ [][NextCreate]_vars

\* a step of process_rows: a task takes a slot, a remote call returns or
\* raises, as_completed yields a finished task, the loop is left
DispatchStep ==
    \/ \E i \in 1..MAX_CSV_ROWS : Acquire(i)
    \/ \E i \in 1..MAX_CSV_ROWS, answer \in Answers(DispatchStatuses) : PostReturns(i, answer)
    \/ Collect
    \/ AfterJoin
    \/ \E out \in PatchOutcomes : PatchReturns(out)

\* The event loop runs a task that can run, and every remote call returns
\* or raises within HTTP_TIMEOUT: process_rows does not stay forever at a
\* step it can take.
SpecLive == Init /\ [][Next]_vars /\ WF_vars(DispatchStep)

(***************************************************************************)
(* Vocabulary of the properties                                            *)
(***************************************************************************)
\* every outcome produced so far, in completion order
Produced == results \o completed

HasOutcome(i) == \E k \in 1..Len(Produced) : Produced[k].row = i

OutcomeOf(i) == Produced[CHOOSE k \in 1..Len(Produced) : Produced[k].row = i]

\* row i passed validation and its n-th submission has produced something
Submitted(i, n) == i \in DOMAIN hist /\ Len(hist[i]) >= n

\* a response that is neither a success nor a client error
TransientResponse(out) ==
    /\ ~out.raised
    /\ out.status \notin {200, 201}
    /\ ~(out.status >= 400 /\ out.status <= 499)

NumCreated == Cardinality({k \in 1..Len(results) : results[k].status = "created"})

InFlight == {i \in DOMAIN wpc : wpc[i] = "posting"}

\* the request in hand passed the gates of bulk_upload
Accepted == batch_id # None

(***************************************************************************)
(* C1  A transport error or timeout on the first submission of a row is    *)
(* retried once: after a first submission that raised, a second one is     *)
(* issued, and the row ends 'failed' on a raised exception only after two  *)
(* submissions.                                                            *)
(***************************************************************************)
C1_RaiseIsRetried ==
    \A i \in DOMAIN wpc :
        (Submitted(i, 1) /\ hist[i][1].raised) => posts[i] = 2

(***************************************************************************)
(* C2  A row whose first submission returns a 5xx status and whose second  *)
(* returns 200/201 has made exactly two submissions and its outcome is     *)
(* 'created' with the id of the second response.                           *)
(***************************************************************************)
C2_RetryThenCreated ==
    \A i \in DOMAIN wpc :
        ( /\ Submitted(i, 2)
          /\ ~hist[i][1].raised /\ hist[i][1].status >= 500
          /\ ~hist[i][2].raised /\ hist[i][2].status \in {200, 201} )
        => /\ posts[i] = 2
           /\ Len(hist[i]) = 2
           /\ wpc[i] = "done"
           /\ HasOutcome(i)
           /\ OutcomeOf(i).status = "created"
           /\ OutcomeOf(i).hospital_id = hist[i][2].id
           /\ OutcomeOf(i).hospital_id # None

C2_Witness ==
    \E i \in DOMAIN wpc :
        /\ Submitted(i, 2)
        /\ hist[i][1].status = 500
        /\ hist[i][2].status = 200
        /\ wpc[i] = "done"

(***************************************************************************)
(* C3  A 4xx response to the first submission is terminal: the row has     *)
(* made exactly one submission, its outcome is 'failed', and no further    *)
(* submission is issued for it.                                            *)
(***************************************************************************)
C3_ClientErrorTerminal ==
    \A i \in DOMAIN wpc :
        ( /\ Submitted(i, 1)
          /\ ~hist[i][1].raised
          /\ hist[i][1].status >= 400 /\ hist[i][1].status <= 499 )
        => /\ posts[i] = 1
           /\ Len(hist[i]) = 1
           /\ wpc[i] = "done"
           /\ HasOutcome(i)
           /\ OutcomeOf(i).status = "failed"
           /\ OutcomeOf(i).hospital_id = None

C3_Witness ==
    /\ pc = "responded"
    /\ \E i \in DOMAIN wpc : Submitted(i, 1) /\ hist[i][1].status = 400

(***************************************************************************)
(* C4  A row whose name or address is empty never causes a submission,     *)
(* and its outcome is 'validation_failed' with no hospital id and an       *)
(* error.                                                                  *)
(***************************************************************************)
C4_ValidationGate ==
    \A i \in DOMAIN wpc :
        (rows[i].name = "" \/ rows[i].address = "")
        => /\ posts[i] = 0
           /\ hist[i] = <<>>
           /\ wpc[i] \in {"queued", "done"}
           /\ wpc[i] = "done" =>
                 /\ HasOutcome(i)
                 /\ OutcomeOf(i).status = "validation_failed"
                 /\ OutcomeOf(i).hospital_id = None
                 /\ OutcomeOf(i).error # NoError

C4_Witness ==
    /\ pc = "responded"
    /\ \E i \in DOMAIN wpc :
          /\ rows[i].name # "" /\ rows[i].address = ""
          /\ HasOutcome(i)
    /\ \E j \in DOMAIN wpc : posts[j] > 0

(***************************************************************************)
(* C5  No row makes more than two submissions, and when both submissions   *)
(* return transient responses the outcome is 'failed' with the status of   *)
(* the second response in its error.                                       *)
(***************************************************************************)
C5_AtMostTwoSubmissions ==
    \A i \in DOMAIN wpc :
        /\ posts[i] <= 2
        /\ Len(hist[i]) <= 2
        /\ ( /\ Submitted(i, 2)
             /\ TransientResponse(hist[i][1])
             /\ TransientResponse(hist[i][2]) )
           => /\ wpc[i] = "done"
              /\ HasOutcome(i)
              /\ OutcomeOf(i).status = "failed"
              /\ OutcomeOf(i).error = HttpError(hist[i][2].status)

C5_Witness ==
    \E i \in DOMAIN wpc :
        /\ Submitted(i, 2)
        /\ hist[i][1].status = 500
        /\ hist[i][2].status = 399
        /\ wpc[i] = "done"

(***************************************************************************)
(* C6  The number of create_hospital invocations holding a semaphore slot  *)
(* never exceeds the concurrency ceiling, and the semaphore counts the     *)
(* free slots, so a queued row starts only when a slot is free.            *)
(***************************************************************************)
C6_CeilingRespected ==
    /\ Cardinality(InFlight) <= CONCURRENCY
    /\ sem = CONCURRENCY - Cardinality(InFlight)

C6_Witness ==
    /\ Cardinality(InFlight) = CONCURRENCY
    /\ \E i \in DOMAIN wpc : wpc[i] = "queued" /\ ~Invalid(rows[i])
    /\ \E i \in InFlight : posts[i] = 2

(***************************************************************************)
(* C7  The activation call is issued only after every row of the dispatch  *)
(* has completed and its outcome has been collected.                       *)
(***************************************************************************)
C7_ActivationAfterJoin ==
    patches > 0 =>
        /\ \A i \in DOMAIN wpc : wpc[i] = "done"
        /\ completed = <<>>
        /\ Len(results) = Len(rows)
        /\ InFlight = {}

C7_Witness ==
    /\ pc = "activating"
    /\ patches = 1
    /\ Len(rows) >= 2
    /\ \E k \in 1..Len(results) : results[k].status # "created"

(***************************************************************************)
(* C8  A dispatch issues exactly one activation call when at least one     *)
(* outcome is 'created' and none when no outcome is; in the latter case    *)
(* activated is false.                                                     *)
(***************************************************************************)
C8_ActivationCount ==
    /\ patches <= 1
    /\ (Accepted /\ pc \in {"activating", "returned", "responded"}) =>
          /\ patches = (IF NumCreated >= 1 THEN 1 ELSE 0)
          /\ NumCreated = 0 => ~activated
          /\ (pc = "responded" /\ NumCreated = 0) => ~response.batch_activated

C8_Witness ==
    /\ pc = "returned"
    /\ NumCreated >= 2
    /\ patches = 1

(***************************************************************************)
(* C9  A failed activation call never fails the ingestion: process_rows    *)
(* returns every outcome with activated false, bulk_upload registers the   *)
(* batch and answers with the full result; activated is true only when     *)
(* the activation call returned 200 or 204.                                *)
(***************************************************************************)
C9_ActivationFailureSwallowed ==
    /\ activated =>
          /\ patches = 1
          /\ ~patch_out.raised
          /\ patch_out.status \in {200, 204}
    /\ (pc = "returned") =>
          /\ Len(results) = Len(rows)
          /\ \A i \in 1..Len(rows) : \E k \in 1..Len(results) : results[k].row = i
    /\ (Accepted /\ pc = "responded") =>
          /\ response.kind = "ok"
          /\ response.batch_activated = activated
          /\ response.hospitals = results
          /\ Len(response.hospitals) = Len(rows)
          /\ batch_id \in DOMAIN batches
          /\ response.batch_id = batch_id

C9_Witness ==
    /\ pc = "responded"
    /\ Accepted
    /\ patches = 1
    /\ patch_out.raised
    /\ response.kind = "ok"
    /\ ~response.batch_activated

(***************************************************************************)
(* C10  The response to an ingestion of N rows (1 <= N <= the row limit)   *)
(* has total_hospitals = N, processed_hospitals = the number of 'created'  *)
(* outcomes, and processed_hospitals + failed_hospitals = total_hospitals. *)
(***************************************************************************)
C10_ResponseCounts ==
    (pc = "responded" /\ Accepted) =>
        /\ Len(rows) >= 1 /\ Len(rows) <= MAX_CSV_ROWS
        /\ response.kind = "ok"
        /\ response.total_hospitals = Len(rows)
        /\ response.processed_hospitals = NumCreated
        /\ response.processed_hospitals + response.failed_hospitals
              = response.total_hospitals
        /\ response.failed_hospitals >= 0

C10_Witness ==
    /\ pc = "responded"
    /\ Accepted
    /\ Len(rows) = MAX_CSV_ROWS
    /\ response.processed_hospitals = 1
    /\ \E k \in 1..Len(results) : results[k].status = "validation_failed"

\* the positions of the outcomes with status created
CreatedAt == {k \in 1..Len(results) : results[k].status = "created"}

\* the elements of a sequence
Range(q) == {q[k] : k \in 1..Len(q)}

\* the step in which bulk_upload registers its batch and answers
Registering == pc = "returned" /\ pc' = "responded"

(***************************************************************************)
(* C11: an ingestion that passed the gates registers exactly one batch,    *)
(* under its own fresh batch id: the step that answers adds that one key   *)
(* and leaves every other entry alone, the registered list has one entry   *)
(* per created outcome of this call and holds exactly their hospital ids   *)
(* (nothing of a failed or validation_failed outcome, nothing registered   *)
(* by another call), and it is registered even when it is empty.  No other *)
(* step of the ingestion touches the registry.                             *)
(***************************************************************************)
C11_RegistersCreated ==
    [][ /\ Registering =>
            /\ batch_id \notin DOMAIN batches
            /\ DOMAIN batches' = DOMAIN batches \cup {batch_id}
            /\ \A b \in DOMAIN batches : batches'[b] = batches[b]
            /\ Len(batches'[batch_id]) = Cardinality(CreatedAt)
            /\ Range(batches'[batch_id]) = {results[k].hospital_id : k \in CreatedAt}
            /\ Cardinality(Range(batches'[batch_id])) = Len(batches'[batch_id])
            /\ None \notin Range(batches'[batch_id])
            /\ \A b \in DOMAIN batches :
                   Range(batches[b]) \cap Range(batches'[batch_id]) = {}
        /\ batches' # batches => Registering
      ]_vars

\* a two-row ingestion has answered with one row created and one not, and
\* its batch holds the one created id
C11_Witness ==
    /\ pc = "responded"
    /\ Accepted
    /\ Len(results) = 2
    /\ Cardinality(CreatedAt) = 1
    /\ batch_id \in DOMAIN batches
    /\ Len(batches[batch_id]) = 1

\* an ingestion in which no row was created has answered, and its batch is
\* registered with no id
C11_EmptyRegistered ==
    /\ pc = "responded"
    /\ Accepted
    /\ CreatedAt = {}
    /\ batch_id \in DOMAIN batches
    /\ batches[batch_id] = <<>>

\* the file names of FileNames that do not end in .csv, in any case
NotCsvNames == { <<"c", "s", "v">>, <<"h", ".", "t", "x", "t">> }

\* an upload that fails an ingestion-level gate
RejectedInput(filename, rs) ==
    \/ filename \in NotCsvNames
    \/ Len(rs) = 0
    \/ Len(rs) > MAX_CSV_ROWS

\* bulk_upload has answered with the error of a gate
Rejected == pc = "responded" /\ response.kind = "error"

\* a step that answers 400 and does nothing else: no uuid, no task, no
\* remote call, no remote id, no change to the registry
AbortStep ==
    /\ Rejected'
    /\ response'.status_code = 400
    /\ batch_id' = None
    /\ posts' = <<>> /\ hist' = <<>> /\ wpc' = <<>>
    /\ patches' = 0
    /\ UNCHANGED <<batches, nextUuid, nextHid>>

(***************************************************************************)
(* C12: an upload whose file name does not end in .csv, or that parses to  *)
(* no row, or to more rows than MAX_CSV_ROWS, is answered at once with the *)
(* error of the gate: no uuid is generated, no row is dispatched (no       *)
(* create submission, no activation call, no remote id consumed), and the  *)
(* registry is what it was; nothing happens after the answer either.  Put  *)
(* the other way round: a step of an upload that is not such an abort is   *)
(* the step of no upload that fails a gate.                                *)
(***************************************************************************)
C12_GateAborts ==
    [][ /\ pc = "idle" /\ ~AbortStep =>
               \A filename \in FileNames, rs \in RowInputs :
                   RejectedInput(filename, rs) => ~Upload(filename, rs)
        /\ Rejected =>
               /\ pc' = "idle"
               /\ posts' = <<>> /\ patches' = 0
               /\ UNCHANGED <<batches, nextUuid, nextHid>>
      ]_vars

\* an upload is rejected after an earlier one registered its batch, and the
\* registry still holds that batch
C12_Witness ==
    /\ Rejected
    /\ DOMAIN batches # {}
    /\ nextUuid = Cardinality(DOMAIN batches)
    /\ batch_id = None

\* process_rows has returned its results to bulk_upload
Returned == Accepted /\ pc \in {"activating", "returned", "responded"}

(***************************************************************************)
(* C18: when process_rows has returned from a dispatch of N rows, its      *)
(* result list holds exactly N outcomes; their row indices are exactly     *)
(* 1..N, each once, and the outcome of index i is the one of the i-th row  *)
(* dispatched; every status is created, failed or validation_failed.  The  *)
(* list is in completion order, which need not be the order of the rows.   *)
(***************************************************************************)
C18_OneOutcomePerRow ==
    Returned =>
        /\ Len(results) = Len(rows)
        /\ {results[k].row : k \in 1..Len(results)} = 1..Len(rows)
        /\ \A j, k \in 1..Len(results) : results[j].row = results[k].row => j = k
        /\ \A k \in 1..Len(results) :
               /\ results[k].status \in {"created", "failed", "validation_failed"}
               /\ results[k].row \in 1..Len(rows)
               /\ results[k].name = rows[results[k].row].name

\* process_rows has returned two outcomes in the reverse of the row order,
\* the second row invalid and the first one created
C18_Witness ==
    /\ Returned
    /\ Len(rows) = 2
    /\ results[1].row = 2 /\ results[1].status = "validation_failed"
    /\ results[2].row = 1 /\ results[2].status = "created"

\* request r was answered 404 Batch not found
AnsweredNotFound(r) ==
    /\ rresp[r].kind = "error"
    /\ rresp[r].status_code = 404

(***************************************************************************)
(* C13: a batch-detail or delete-batch request is answered Batch not found *)
(* only if its lookup found no entry under the batch id.  The handlers     *)
(* test "if not ids", which an entry with an empty id list fails as well,  *)
(* so this does not hold: a batch registered with no id is answered 404    *)
(* by both, and delete-batch leaves it in the registry.                    *)
(***************************************************************************)
C13_NotFoundOnlyWhenAbsent ==
    \A r \in Requests : AnsweredNotFound(r) => ~rids[r].found

\* id lists to save: the empty list and, for each length up to
\* MAX_CSV_ROWS, the ids in ascending and in descending order
IdLists ==
    {[j \in 1..k |-> j] : k \in 0..MAX_CSV_ROWS} \cup
    {[j \in 1..k |-> k + 1 - j] : k \in 0..MAX_CSV_ROWS}

\* save, get, remove, get on registry reg
RoundTrip(reg, id, ids) ==
    LET saved   == save_batch(reg, id, ids)
        removed == remove_batch(saved, id)
    IN  /\ get_batch(saved, id) = [found |-> TRUE, ids |-> ids]
        /\ \A b \in (DOMAIN reg) \ {id} : get_batch(saved, b) = get_batch(reg, b)
        /\ removed.result = TRUE
        /\ get_batch(removed.reg, id) = NotFound
        /\ \A b \in (DOMAIN reg) \ {id} : get_batch(removed.reg, b) = get_batch(reg, b)

(***************************************************************************)
(* C14: on every registry the requests can produce, for every batch id and *)
(* id list: get_batch after save_batch returns exactly the list saved (the *)
(* empty list too), remove_batch then returns true and get_batch after it  *)
(* finds nothing, the other entries untouched throughout; remove_batch of  *)
(* an id that is not registered returns false and leaves the registry as   *)
(* it was.                                                                 *)
(***************************************************************************)
C14_RegistryRoundTrip ==
    /\ \A id \in BatchIds, ids \in IdLists : RoundTrip(batches, id, ids)
    /\ \A id \in BatchIds \ DOMAIN batches :
           remove_batch(batches, id) = [reg |-> batches, result |-> FALSE]

\* a delete-batch request got the ids an upload had saved and has removed
\* the batch, while another batch is still registered
C14_Witness ==
    \E r \in Requests :
        /\ rop[r] = "delete"
        /\ rresp[r].kind = "ok"
        /\ \E u \in Requests :
               rop[u] = "upload" /\ rbatch[u] = rbatch[r] /\ rids[u] = rids[r]
        /\ rids[r].ids # <<>>
        /\ get_batch(batches, rbatch[r]) = NotFound
        /\ DOMAIN batches # {}

\* the requests inside an "async with _lock" block
InsideLock == {r \in Requests : rpc[r] \in {"in_save", "in_get", "in_get_all", "in_remove"}}

\* the ingestions that have answered
DoneUploads == {r \in Requests : rop[r] = "upload" /\ rpc[r] = "done"}

(***************************************************************************)
(* C15: with several ingestions in flight, at most one request is inside   *)
(* the lock of the registry at any time, and it is the one that holds the  *)
(* lock; the ingestions have pairwise distinct batch ids; and no save is   *)
(* lost: the registry maps the batch id of every ingestion that has        *)
(* answered to exactly the ids that ingestion created, and holds nothing   *)
(* else, so once all have answered it holds every one of them.             *)
(***************************************************************************)
C15_SerializedNoLostUpdate ==
    /\ Cardinality(InsideLock) <= 1
    /\ \A r \in Requests : r \in InsideLock <=> lock = r
    /\ \A r, u \in Requests :
           rop[r] = "upload" /\ rop[u] = "upload" /\ rbatch[r] = rbatch[u] => r = u
    /\ DOMAIN batches = {rbatch[r] : r \in DoneUploads}
    /\ \A r \in DoneUploads : batches[rbatch[r]] = rids[r].ids

\* every request was an ingestion, all have answered, and the registry
\* holds one batch for each, one of them with ids and one without
C15_Witness ==
    /\ DoneUploads = Requests
    /\ Cardinality(DOMAIN batches) = MaxRequests
    /\ \E r \in Requests : batches[rbatch[r]] # <<>>
    /\ \E r \in Requests : batches[rbatch[r]] = <<>>

\* three ingestions meet at the lock: one has saved, a later one is inside
\* the lock, an earlier one still waits for it
C15_Contention ==
    \E w, r, u \in Requests :
        /\ rpc[w] = "done" /\ rbatch[w] \in DOMAIN batches
        /\ rpc[r] = "in_save"
        /\ rpc[u] = "dispatched"
        /\ u < r

\* request r iterates over the mapping get_all_batches returned to it
Iterating(r) == rop[r] = "list" /\ rpc[r] = "probing"

(***************************************************************************)
(* C16: the mapping get_all_batches returns is the registry of the moment  *)
(* of the call, held in an object of its own: while list_batches iterates  *)
(* over it, across its remote probes, no step of any request (no           *)
(* save_batch, no remove_batch) changes what the caller sees in it, and    *)
(* as it is not the registry's dict, changing its keys cannot change the   *)
(* registry.                                                               *)
(***************************************************************************)
C16_SnapshotIsACopy ==
    [][ \A r \in Requests :
          /\ rpc[r] = "in_get_all" /\ rpc'[r] = "probing" =>
                 /\ Deref(rsnap[r])' = batches
                 /\ ~rsnap'[r].live
          /\ Iterating(r) =>
                 /\ Deref(rsnap[r])' = Deref(rsnap[r])
                 /\ ~rsnap[r].live
      ]_vars

\* list_batches iterates over a snapshot that holds a batch with ids which
\* a delete-batch request has removed from the registry since
C16_Witness ==
    \E r \in Requests :
        /\ Iterating(r)
        /\ \E b \in DOMAIN Deref(rsnap[r]) :
               /\ Deref(rsnap[r])[b] # <<>>
               /\ b \notin DOMAIN batches

\* list_batches iterates over a snapshot taken before an ingestion saved
\* its batch
C16_SavedSince ==
    \E r \in Requests :
        /\ Iterating(r)
        /\ \E b \in DOMAIN batches : b \notin DOMAIN Deref(rsnap[r])

\* the batch ids a step takes out of the registry
Removed == (DOMAIN batches) \ (DOMAIN batches')

\* the delete call of request r for hid has been issued
DeleteIssued(r, hid) == <<r, hid>> \in deletes

(***************************************************************************)
(* C17: a batch leaves the registry only in the remove_batch step of a     *)
(* delete-batch request for that batch which has, before that step, issued *)
(* a remote delete call for every id of the entry; a step in which a       *)
(* remote delete call raises ends the request with an error and leaves     *)
(* the registry, the entry included, as it was.                            *)
(***************************************************************************)
C17_DeleteAllThenRemove ==
    [][ /\ \A b \in Removed :
               \E r \in Requests :
                   /\ rop[r] = "delete" /\ rbatch[r] = b
                   /\ rpc[r] = "in_remove" /\ rpc'[r] = "done"
                   /\ rids[r].ids = batches[b]
                   /\ \A hid \in Range(batches[b]) : DeleteIssued(r, hid)
        /\ \A r \in Requests :
               rpc[r] = "deleting" /\ rresp'[r] = ServerError =>
                   /\ rpc'[r] = "done"
                   /\ batches' = batches
                   /\ get_batch(batches', rbatch[r]) = get_batch(batches, rbatch[r])
      ]_vars

\* a delete-batch request has issued the delete calls of a batch of two
\* ids and then removed the batch
C17_Witness ==
    \E r \in Requests :
        /\ rop[r] = "delete" /\ rresp[r].kind = "ok"
        /\ Len(rids[r].ids) = 2
        /\ \A hid \in Range(rids[r].ids) : DeleteIssued(r, hid)
        /\ rbatch[r] \notin DOMAIN batches

\* the second delete call of a delete-batch request raised, and the batch
\* is still registered with both ids
C17_RaisedKeeps ==
    \E r \in Requests :
        /\ rop[r] = "delete" /\ rresp[r] = ServerError
        /\ rk[r] = 1
        /\ get_batch(batches, rbatch[r]) = rids[r]
        /\ Len(rids[r].ids) = 2

\* the delete-batch requests for batch b that answered deleted = true
ReportedDeleted(b) ==
    {r \in Requests : rop[r] = "delete" /\ rbatch[r] = b /\ rresp[r].kind = "ok"}

\* the requests that issued a remote delete call for hid
Deleters(hid) == {r \in Requests : DeleteIssued(r, hid)}

(***************************************************************************)
(* C20: whatever the interleaving of the delete-batch requests, a remote   *)
(* id receives at most one remote delete call and at most one request      *)
(* answers deleted = true for a batch.  delete_batch holds the lock only   *)
(* inside get_batch and inside remove_batch and does not look at what      *)
(* remove_batch returns, so this does not hold: a second request can read  *)
(* the ids while the first is still issuing its delete calls.              *)
(***************************************************************************)
C20_DeleteRequestsSerialized ==
    /\ \A r \in Requests : \A hid \in Range(rids[r].ids) :
           Cardinality(Deleters(hid)) <= 1
    /\ \A b \in BatchIds : Cardinality(ReportedDeleted(b)) <= 1

\* process_rows is under way
Dispatching == Accepted /\ pc = "dispatch"

\* process_rows has left its fan-in loop with an outcome for every row
AllOutcomes ==
    /\ Accepted
    /\ pc \in {"activating", "returned", "responded"}
    /\ \A i \in 1..Len(rows) : \E k \in 1..Len(results) : results[k].row = i

(***************************************************************************)
(* C19: if the event loop keeps running the tasks that can run and every   *)
(* remote call returns or raises, a dispatch always ends with an outcome   *)
(* for every row, whatever the rows meet: validation failures, 4xx, 5xx    *)
(* on both attempts, raised exceptions.  A row that fails gives its slot   *)
(* back, so the rows behind it still get one.                              *)
(***************************************************************************)
C19_DispatchCompletes == Dispatching ~> AllOutcomes

\* the first row finished failed on an exception, and a row that took the
\* slot after it was created
C19_Witness ==
    /\ AllOutcomes
    /\ Len(results) = 2
    /\ results[1].status = "failed" /\ results[1].error = ExceptionError
    /\ results[2].status = "created"

=============================================================================
